---- MODULE Spec2Model ----
(***************************************************************************)
(* talkcleaner (src/ktalk.py): a PyQt6 window listing the files of one     *)
(* folder, with three background workers (search, compress, delete) that   *)
(* run on their own QThread and report to the window through queued        *)
(* signals.                                                                *)
(*                                                                         *)
(* The window's handlers run on the GUI thread, one at a time; the modal   *)
(* dialogs they open are answered inside the handler.  A worker's run() is *)
(* cut at the places where it reads the shared _cancelled flag or touches  *)
(* the filesystem.  Every signal a worker emits is recorded, in order, in  *)
(* the worker's trace.  The finished and error signals are also appended   *)
(* to the GUI thread's event queue and handled in FIFO order; the progress *)
(* signals only set the value and the label of the progress bar, which are *)
(* not part of the state, so their delivery is not a step.                 *)
(***************************************************************************)
EXTENDS Integers, Sequences, FiniteSets, TLC

\* ------------------------------------------------------------------ bounds
\* Number of files in the received-files folder when the window opens.
NumFiles == 2

Files == 1..NumFiles

\* Number of tasks the user starts in one session.
MaxRuns == 2

\* Largest number of files handed to a single task.
MaxInput == 3

\* Largest reading of the clock since the start of a deletion, in ticks.
MaxElapsed == 1

\* ------------------------------------------------------------------ state
VARIABLES
    fs,                  \* paths of the folder that exist on the filesystem
    archive,             \* the file at zip_path: NoFile, or the entries written
    file_items,          \* MainWindow.file_items, with each item's check/hidden state
    search_input,        \* text of the search box
    search_button,       \* enabled?
    btn_compress,        \* enabled?
    btn_clear_all,       \* enabled?
    btn_clear_selected,  \* enabled?
    progress_bar,        \* visible?
    cancel_button,       \* visible?
    active_worker,       \* "none" or the kind of the worker it refers to
    sw,                  \* self.search_worker and its thread
    cw,                  \* self.comp_worker, its thread and its pool of readers
    dw,                  \* self.del_worker and its thread
    queue,               \* queued signals not yet handled by the GUI thread
    runs,                \* workers started so far
    crashed              \* the process was aborted

vars == <<fs, archive, file_items, search_input, search_button, btn_compress,
          btn_clear_all, btn_clear_selected, progress_bar, cancel_button,
          active_worker, sw, cw, dw, queue, runs, crashed>>

\* What the GUI thread owns.
ui == <<file_items, search_input, search_button, btn_compress, btn_clear_all,
        btn_clear_selected, progress_bar, cancel_button, active_worker>>

NoFile == <<"no file">>

\* ------------------------------------------------------------------ helpers
Range(s) == {s[k] : k \in 1..Len(s)}

Min(S) == CHOOSE x \in S : \A y \in S : x <= y

\* The files of S in directory-walk order.
RECURSIVE WalkOrder(_)
WalkOrder(S) ==
    IF S = {} THEN <<>> ELSE <<Min(S)>> \o WalkOrder(S \ {Min(S)})

\* ------------------------------------------------------------------ strings
\* A string is a sequence of characters; the alphabet is a, A, b, B, blank,
\* the path separator and the digits that tell the files apart.
LowerChar(c) == CASE c = "A" -> "a" [] c = "B" -> "b" [] OTHER -> c

\* str.lower()
Lower(s) == [k \in 1..Len(s) |-> LowerChar(s[k])]

\* needle in hay
Contains(needle, hay) ==
    \E k \in 0..(Len(hay) - Len(needle)) :
        \A j \in 1..Len(needle) : hay[k + j] = needle[j]

\* str.rstrip()
RECURSIVE RStrip(_)
RStrip(s) ==
    IF s # <<>> /\ s[Len(s)] = " " THEN RStrip(SubSeq(s, 1, Len(s) - 1)) ELSE s

\* str.lstrip()
RECURSIVE LStrip(_)
LStrip(s) ==
    IF s # <<>> /\ s[1] = " " THEN LStrip(Tail(s)) ELSE s

\* str.strip()
Strip(s) == LStrip(RStrip(s))

\* ------------------------------------------------------------------ the folder
\* Three sorts of file, repeated over the paths: a text file at the root, a
\* file in the sub-folder "A" whose decoding fails at its second line, and a
\* binary file at the root whose decoding fails at once.
FileSort(f) == ((f - 1) % 3) + 1

\* os.walk: the folder of the file, relative to the root (empty: the root).
RelativePath(f) == IF FileSort(f) = 2 THEN <<"A">> ELSE <<>>

\* The file's own name.
FileName(f) ==
    (CASE FileSort(f) = 1 -> <<"a">>
       [] FileSort(f) = 2 -> <<"b">>
       [] OTHER -> <<"B">>) \o <<ToString(f)>>

\* Its lines as text (without the line terminator).
FileLines(f) ==
    CASE FileSort(f) = 1 -> << <<"a", "b", " ">>, <<"B">> >>
      [] FileSort(f) = 2 -> << <<"b", "a">>, <<"A">> >>
      [] OTHER -> << <<"b">> >>

\* The line whose read raises UnicodeDecodeError (0: none does).
BadLine(f) ==
    CASE FileSort(f) = 1 -> 0
      [] FileSort(f) = 2 -> 2
      [] OTHER -> 1

\* Its bytes.
FileBytes(f) == <<FileLines(f), BadLine(f)>>

\* display_text = file if relative_path == '.' else os.path.join(relative_path, file)
DisplayText(f) ==
    IF RelativePath(f) = <<>> THEN FileName(f)
    ELSE RelativePath(f) \o <<"/">> \o FileName(f)

\* os.path.basename(file)
BaseName(f) == FileName(f)

\* What the user may type in the search box.
InputTexts == { <<>>, <<"A", " ">> }

\* ------------------------------------------------------------------ signals
\* msg is meaningful for "error" only, results for the search's "finished".
NoMsg == [kind |-> "none", path |-> 0]
CancelledMsg == [kind |-> "cancelled", path |-> 0]
ReadErrorMsg(full_path) == [kind |-> "read", path |-> full_path]
WriteErrorMsg == [kind |-> "write", path |-> 0]
DeleteErrorMsg(file_path) == [kind |-> "delete", path |-> file_path]

\* A number a / b, kept as the pair of a and b; b = 0 stands for the
\* division by zero.
Quotient(a, b) == <<a, b>>
Times(q, n) == <<q[1] * n, q[2]>>
Zero == Quotient(0, 1)

\* timing is meaningful for the deletion's "progress" only.
NoTiming == [percent |-> Zero, elapsed |-> 0, remaining |-> Zero]

ProgressEv(src, cur, total) ==
    [src |-> src, type |-> "progress", cur |-> cur, total |-> total,
     msg |-> NoMsg, results |-> <<>>, timing |-> NoTiming]
FinishedEv(src, results) ==
    [src |-> src, type |-> "finished", cur |-> 0, total |-> 0,
     msg |-> NoMsg, results |-> results, timing |-> NoTiming]
ErrorEv(src, msg) ==
    [src |-> src, type |-> "error", cur |-> 0, total |-> 0,
     msg |-> msg, results |-> <<>>, timing |-> NoTiming]
\* Not a signal: marks in a worker's trace the moment cancel() set its flag.
CancelMark(src) ==
    [src |-> src, type |-> "cancel", cur |-> 0, total |-> 0,
     msg |-> NoMsg, results |-> <<>>, timing |-> NoTiming]

\* The worker's trace after it emitted ev.
Emit(w, ev) == [w EXCEPT !.trace = Append(@, ev)]

\* ------------------------------------------------------------------ DeletionWorker
IdleDel ==
    [pc |-> "idle", files |-> <<>>, i |-> 0, cancelled |-> FALSE,
     trace |-> <<>>, fs0 |-> {}]

\* DeletionWorker(files_to_delete), moved to its thread and started; fs0
\* records the filesystem at that moment.
DeletionWorker(files_to_delete) ==
    [pc |-> "loop", files |-> files_to_delete, i |-> 0, cancelled |-> FALSE,
     trace |-> <<>>, fs0 |-> fs]

\* Mutant: the loop does not look at the cancellation flag.
DelEntersBody_NoCancelCheck(w) == w.i < Len(w.files)

\* for i, file_path in enumerate(self.files_to_delete):
\*     if self._cancelled: break
DelEntersBody(w) == w.i < Len(w.files) /\ ~w.cancelled

\* elapsed = time.time() - start_time
ElapsedTimes == 0..MaxElapsed

\* percent = (deleted / total) * 100
\* avg = elapsed / deleted if deleted else 0
\* remaining = avg * (total - deleted)
Timing(deleted, total, elapsed) ==
    [percent |-> Times(Quotient(deleted, total), 100),
     elapsed |-> elapsed,
     remaining |-> Times(IF deleted # 0 THEN Quotient(elapsed, deleted) ELSE Zero,
                         total - deleted)]

\* Mutant: the signal counts the files removed before this one.
DelProgress_CountsFromZero(w, elapsed) ==
    [ProgressEv("del", w.i, Len(w.files)) EXCEPT
        !.timing = Timing(w.i, Len(w.files), elapsed)]

\* self.progress.emit(deleted, total, percent, elapsed, remaining), deleted = i + 1
DelProgress(w, elapsed) ==
    [ProgressEv("del", w.i + 1, Len(w.files)) EXCEPT
        !.timing = Timing(w.i + 1, Len(w.files), elapsed)]

\* Mutant: the error names the first file of the list, not the failing one.
DelError_FirstPath(w) == ErrorEv("del", DeleteErrorMsg(w.files[1]))

\* self.error.emit(f"... {file_path} - {str(e)}")
DelError(w) == ErrorEv("del", DeleteErrorMsg(w.files[w.i + 1]))

\* The loop's head; after the loop, self.finished.emit().
DelLoopHead ==
    /\ ~crashed
    /\ dw.pc = "loop"
    /\ IF DelEntersBody(dw)
       THEN /\ dw' = [dw EXCEPT !.pc = "remove"]
            /\ UNCHANGED queue
       ELSE /\ dw' = [Emit(dw, FinishedEv("del", <<>>)) EXCEPT !.pc = "done"]
            /\ queue' = Append(queue, FinishedEv("del", <<>>))
    /\ UNCHANGED <<fs, archive, ui, sw, cw, crashed, runs>>

\* Mutant: after a removal the next file is removed without a look at the flag.
DelRemoveOk_KeepsGoing ==
    /\ ~crashed
    /\ dw.pc = "remove"
    /\ dw.files[dw.i + 1] \in fs
    /\ fs' = fs \ {dw.files[dw.i + 1]}
    /\ \E elapsed \in ElapsedTimes :
          dw' = [Emit(dw, DelProgress(dw, elapsed)) EXCEPT
                    !.pc = IF dw.i + 1 < Len(dw.files) THEN "remove" ELSE "loop",
                    !.i = dw.i + 1]
    /\ UNCHANGED queue
    /\ UNCHANGED <<archive, ui, sw, cw, crashed, runs>>

\* os.remove(file_path) succeeded, and the progress signal follows.
DelRemoveOk ==
    /\ ~crashed
    /\ dw.pc = "remove"
    /\ dw.files[dw.i + 1] \in fs
    /\ fs' = fs \ {dw.files[dw.i + 1]}
    /\ \E elapsed \in ElapsedTimes :
          dw' = [Emit(dw, DelProgress(dw, elapsed)) EXCEPT !.pc = "loop", !.i = dw.i + 1]
    /\ UNCHANGED queue
    /\ UNCHANGED <<archive, ui, sw, cw, crashed, runs>>

\* Mutant: the return after error.emit is missing, the loop goes on.
DelRemoveFail_NoReturn ==
    /\ ~crashed
    /\ dw.pc = "remove"
    /\ dw' = [Emit(dw, DelError(dw)) EXCEPT !.pc = "loop", !.i = dw.i + 1]
    /\ queue' = Append(queue, DelError(dw))
    /\ UNCHANGED <<fs, archive, ui, sw, cw, crashed, runs>>

\* os.remove(file_path) raised (the file is gone, in use, or protected):
\* error.emit(...); return
DelRemoveFail ==
    /\ ~crashed
    /\ dw.pc = "remove"
    /\ dw' = [Emit(dw, DelError(dw)) EXCEPT !.pc = "done"]
    /\ queue' = Append(queue, DelError(dw))
    /\ UNCHANGED <<fs, archive, ui, sw, cw, crashed, runs>>

\* ------------------------------------------------------------------ SearchWorker
IdleSearch ==
    [pc |-> "idle", files |-> <<>>, term |-> <<>>, i |-> 0, ln |-> 0,
     match |-> FALSE, line_matches |-> <<>>, results |-> <<>>,
     cancelled |-> FALSE, trace |-> <<>>]

\* SearchWorker(files, search_term): self.search_term = search_term.lower()
SearchWorker(files, search_term) ==
    [IdleSearch EXCEPT !.pc = "loop", !.files = files,
                       !.term = Lower(search_term)]

\* for i, (full_path, file_name) in enumerate(self.files):
\*     if self._cancelled: break
SearchEntersBody(w) == w.i < Len(w.files) /\ ~w.cancelled

\* Mutant: every file is taken as matched by its name.
NameMatches_Always(w) == TRUE

\* if self.search_term in file_name.lower(): match = True
NameMatches(w) == Contains(w.term, Lower(w.files[w.i + 1].name))

\* Mutant: the line is compared as it is, not lowered.
LineMatches_CaseSensitive(w, line) == Contains(w.term, line)

\* if self.search_term in line.lower()
LineMatches(w, line) == Contains(w.term, Lower(line))

\* results.append((match, line_matches)); self.progress.emit(i + 1, total)
SearchProgress(w) == ProgressEv("search", w.i + 1, Len(w.files))

SearchFileDone(w, match) ==
    [Emit(w, SearchProgress(w)) EXCEPT
        !.results = Append(@, [match |-> match, line_matches |-> w.line_matches]),
        !.pc = "loop", !.i = w.i + 1, !.ln = 0, !.match = FALSE,
        !.line_matches = <<>>]

\* The loop's head down to open(full_path); after the loop,
\* self.finished.emit(results).  An open that raises leaves the file with its
\* name match and no line.
SearchLoopHead ==
    /\ ~crashed
    /\ sw.pc = "loop"
    /\ IF SearchEntersBody(sw)
       THEN IF sw.files[sw.i + 1].path \in fs
            THEN /\ sw' = [sw EXCEPT !.pc = "line", !.match = NameMatches(sw),
                                     !.ln = 0, !.line_matches = <<>>]
                 /\ UNCHANGED queue
            ELSE /\ sw' = SearchFileDone(sw, NameMatches(sw))
                 /\ UNCHANGED queue
       ELSE /\ sw' = [Emit(sw, FinishedEv("search", sw.results)) EXCEPT !.pc = "done"]
            /\ queue' = Append(queue, FinishedEv("search", sw.results))
    /\ UNCHANGED <<fs, archive, ui, cw, dw, crashed, runs>>

\* Mutant: a line that cannot be decoded ends the whole scan.
SearchLine_ErrorAborts ==
    /\ ~crashed
    /\ sw.pc = "line"
    /\ LET f == sw.files[sw.i + 1].path
           lines == FileLines(f)
       IN  IF sw.ln + 1 = BadLine(f)
           THEN /\ sw' = [Emit(sw, FinishedEv("search", sw.results)) EXCEPT !.pc = "done"]
                /\ queue' = Append(queue, FinishedEv("search", sw.results))
           ELSE IF sw.ln = Len(lines) \/ sw.cancelled
           THEN /\ sw' = SearchFileDone(sw, sw.match \/ sw.line_matches # <<>>)
                /\ UNCHANGED queue
           ELSE /\ sw' = [sw EXCEPT
                    !.ln = sw.ln + 1,
                    !.line_matches =
                        IF LineMatches(sw, lines[sw.ln + 1])
                        THEN Append(@, [num |-> sw.ln + 1,
                                        text |-> RStrip(lines[sw.ln + 1])])
                        ELSE @]
                /\ UNCHANGED queue
    /\ UNCHANGED <<fs, archive, ui, cw, dw, crashed, runs>>

\* One turn of "for num, line in enumerate(f, 1)": the read of the next line,
\* which ends the loop at the end of the file and may raise; then the test of
\* _cancelled; then the match.  When the loop ends without an exception,
\* "if line_matches: match = True" runs; except Exception: pass skips it.
SearchLine ==
    /\ ~crashed
    /\ sw.pc = "line"
    /\ LET f == sw.files[sw.i + 1].path
           lines == FileLines(f)
       IN  IF sw.ln + 1 = BadLine(f)
           THEN /\ sw' = SearchFileDone(sw, sw.match)
                /\ UNCHANGED queue
           ELSE IF sw.ln = Len(lines) \/ sw.cancelled
           THEN /\ sw' = SearchFileDone(sw, sw.match \/ sw.line_matches # <<>>)
                /\ UNCHANGED queue
           ELSE /\ sw' = [sw EXCEPT
                    !.ln = sw.ln + 1,
                    !.line_matches =
                        IF LineMatches(sw, lines[sw.ln + 1])
                        THEN Append(@, [num |-> sw.ln + 1,
                                        text |-> RStrip(lines[sw.ln + 1])])
                        ELSE @]
                /\ UNCHANGED queue
    /\ UNCHANGED <<fs, archive, ui, cw, dw, crashed, runs>>

\* ------------------------------------------------------------------ CompressionWorker
IdleComp ==
    [pc |-> "idle", files |-> <<>>, fut |-> <<>>, taken |-> {}, cur |-> 0,
     results |-> <<>>, count |-> 0, exc |-> NoMsg, written |-> 0,
     cancelled |-> FALSE, trace |-> <<>>, opened |-> FALSE]

Queued == [st |-> "queued", data |-> <<>>, exc |-> NoMsg]

\* CompressionWorker(files_to_compress, zip_path), started: run() has
\* submitted one read_file per (full_path, arcname) to the pool.
CompressionWorker(files_to_compress) ==
    [IdleComp EXCEPT !.pc = "collect", !.files = files_to_compress,
                     !.fut = [k \in 1..Len(files_to_compress) |-> Queued]]

\* Mutant: the entry is named after the file alone, not after the pair's arcname.
ReadResult_BaseName(pair) ==
    [st |-> "ok", data |-> <<BaseName(pair.path), FileBytes(pair.path)>>,
     exc |-> [kind |-> "none", path |-> 0]]

\* read_file returned (arcname, data)
ReadResult(pair) ==
    [st |-> "ok", data |-> <<pair.arcname, FileBytes(pair.path)>>, exc |-> NoMsg]

\* read_file raised Exception(f"... {full_path} - {str(e)}")
ReadFailure(pair) ==
    [st |-> "exc", data |-> <<>>, exc |-> ReadErrorMsg(pair.path)]

\* read_file raised the cancellation exception
ReadCancelled == [st |-> "exc", data |-> <<>>, exc |-> CancelledMsg]

CompPoolOpen == cw.pc \in {"collect", "take", "drain"}

\* read_file on a pool thread: if self._cancelled: raise
CompReadCancelled(k) ==
    /\ ~crashed
    /\ CompPoolOpen
    /\ k \in 1..Len(cw.files)
    /\ cw.fut[k].st = "queued"
    /\ cw.cancelled
    /\ cw' = [cw EXCEPT !.fut[k] = ReadCancelled]
    /\ UNCHANGED <<fs, archive, ui, sw, dw, queue, crashed, runs>>

\* read_file on a pool thread: the file is read whole.
CompReadOk(k) ==
    /\ ~crashed
    /\ CompPoolOpen
    /\ k \in 1..Len(cw.files)
    /\ cw.fut[k].st = "queued"
    /\ ~cw.cancelled
    /\ cw.files[k].path \in fs
    /\ cw' = [cw EXCEPT !.fut[k] = ReadResult(cw.files[k])]
    /\ UNCHANGED <<fs, archive, ui, sw, dw, queue, crashed, runs>>

\* read_file on a pool thread: open or read raised (the file is gone, or it
\* cannot be read).
CompReadFail(k) ==
    /\ ~crashed
    /\ CompPoolOpen
    /\ k \in 1..Len(cw.files)
    /\ cw.fut[k].st = "queued"
    /\ ~cw.cancelled
    /\ cw' = [cw EXCEPT !.fut[k] = ReadFailure(cw.files[k])]
    /\ UNCHANGED <<fs, archive, ui, sw, dw, queue, crashed, runs>>

\* Mutant: the signal carries the position of the file in the input, not the count.
CompProgress_InputIndex(w) == ProgressEv("comp", w.cur, Len(w.files))

\* self.progress.emit(count, total), after count += 1
CompProgress(w) == ProgressEv("comp", w.count + 1, Len(w.files))

\* for future in as_completed(futures): if self._cancelled: raise Exception(...)
CompNextCompleted(k) ==
    /\ ~crashed
    /\ cw.pc = "collect"
    /\ k \in (1..Len(cw.files)) \ cw.taken
    /\ cw.fut[k].st # "queued"
    /\ cw' = IF cw.cancelled
             THEN [cw EXCEPT !.pc = "drain", !.exc = CancelledMsg]
             ELSE [cw EXCEPT !.pc = "take", !.cur = k]
    /\ UNCHANGED <<fs, archive, ui, sw, dw, queue, crashed, runs>>

\* Mutant: a read that raised is skipped and the run goes on.
CompTake_SkipsFailedRead ==
    /\ ~crashed
    /\ cw.pc = "take"
    /\ IF cw.fut[cw.cur].st = "ok"
       THEN cw' = [Emit(cw, CompProgress(cw)) EXCEPT
                        !.pc = "collect", !.taken = @ \cup {cw.cur},
                        !.results = Append(@, cw.fut[cw.cur].data),
                        !.count = @ + 1, !.cur = 0]
       ELSE cw' = [cw EXCEPT !.pc = "collect", !.taken = @ \cup {cw.cur}, !.cur = 0]
    /\ UNCHANGED <<fs, archive, ui, sw, dw, queue, crashed, runs>>

\* result = future.result(); results.append(result); count += 1; progress.emit
CompTake ==
    /\ ~crashed
    /\ cw.pc = "take"
    /\ IF cw.fut[cw.cur].st = "ok"
       THEN /\ cw' = [Emit(cw, CompProgress(cw)) EXCEPT
                        !.pc = "collect", !.taken = @ \cup {cw.cur},
                        !.results = Append(@, cw.fut[cw.cur].data),
                        !.count = @ + 1, !.cur = 0]
            /\ UNCHANGED queue
       ELSE /\ cw' = [cw EXCEPT !.pc = "drain", !.exc = cw.fut[cw.cur].exc]
            /\ UNCHANGED queue
    /\ UNCHANGED <<fs, archive, ui, sw, dw, crashed, runs>>

\* An exception leaves "with ThreadPoolExecutor()", which waits for every
\* submitted read; then except Exception as e: self.error.emit(str(e)).
CompDrain ==
    /\ ~crashed
    /\ cw.pc = "drain"
    /\ \A k \in 1..Len(cw.files) : cw.fut[k].st # "queued"
    /\ cw' = [Emit(cw, ErrorEv("comp", cw.exc)) EXCEPT !.pc = "done"]
    /\ queue' = Append(queue, ErrorEv("comp", cw.exc))
    /\ UNCHANGED <<fs, archive, ui, sw, dw, crashed, runs>>

CompAllCollected(w) == w.pc = "collect" /\ w.taken = 1..Len(w.files)

\* After the reads: if self._cancelled: raise ...; then
\* zipfile.ZipFile(self.zip_path, 'w', ZIP_DEFLATED) creates or truncates the file.
CompOpenZip ==
    /\ ~crashed
    /\ CompAllCollected(cw)
    /\ IF cw.cancelled
       THEN /\ cw' = [Emit(cw, ErrorEv("comp", CancelledMsg)) EXCEPT !.pc = "done"]
            /\ queue' = Append(queue, ErrorEv("comp", CancelledMsg))
            /\ UNCHANGED archive
       ELSE /\ cw' = [cw EXCEPT !.pc = "write", !.opened = TRUE]
            /\ archive' = <<>>
            /\ UNCHANGED queue
    /\ UNCHANGED <<fs, ui, sw, dw, crashed, runs>>

\* zipfile.ZipFile(...) raised: nothing is created.
CompOpenZipFail ==
    /\ ~crashed
    /\ CompAllCollected(cw)
    /\ ~cw.cancelled
    /\ cw' = [Emit(cw, ErrorEv("comp", WriteErrorMsg)) EXCEPT !.pc = "done"]
    /\ queue' = Append(queue, ErrorEv("comp", WriteErrorMsg))
    /\ UNCHANGED <<fs, archive, ui, sw, dw, crashed, runs>>

\* for arcname, data in results: if self._cancelled: raise ...
CompWritesNext(w) == w.written < Len(w.results) /\ ~w.cancelled

\* One turn of the writing loop: zipf.writestr(arcname, data); after the
\* loop the archive is closed and self.finished.emit(self.zip_path).  The
\* cancellation exception closes the archive too, with what was written.
CompWrite ==
    /\ ~crashed
    /\ cw.pc = "write"
    /\ IF CompWritesNext(cw)
       THEN /\ archive' = Append(archive, cw.results[cw.written + 1])
            /\ cw' = [cw EXCEPT !.written = @ + 1]
            /\ UNCHANGED queue
       ELSE IF cw.written < Len(cw.results)
       THEN /\ cw' = [Emit(cw, ErrorEv("comp", CancelledMsg)) EXCEPT !.pc = "done"]
            /\ queue' = Append(queue, ErrorEv("comp", CancelledMsg))
            /\ UNCHANGED archive
       ELSE /\ cw' = [Emit(cw, FinishedEv("comp", <<>>)) EXCEPT !.pc = "done"]
            /\ queue' = Append(queue, FinishedEv("comp", <<>>))
            /\ UNCHANGED archive
    /\ UNCHANGED <<fs, ui, sw, dw, crashed, runs>>

\* zipf.writestr raised: the archive is closed with what was written.
CompWriteFail ==
    /\ ~crashed
    /\ cw.pc = "write"
    /\ CompWritesNext(cw)
    /\ cw' = [Emit(cw, ErrorEv("comp", WriteErrorMsg)) EXCEPT !.pc = "done"]
    /\ queue' = Append(queue, ErrorEv("comp", WriteErrorMsg))
    /\ UNCHANGED <<fs, archive, ui, sw, dw, crashed, runs>>

\* ------------------------------------------------------------------ MainWindow
\* max_length in search_finished
max_length == 35

\* A row of the tree: item.setCheckState(0, Unchecked), shown, no child row.
Item(full_path) ==
    [path |-> full_path, checked |-> FALSE, hidden |-> FALSE, children |-> <<>>]

\* The rows check_folder_and_list_files builds from the folder.
ListFiles(present) ==
    [k \in 1..Len(WalkOrder(present)) |-> Item(WalkOrder(present)[k])]

\* pattern.sub(lambda m: f"<b>{m.group()}</b>", line_text) for the pattern
\* re.compile(re.escape(term), re.IGNORECASE); the empty pattern matches
\* before every character and at the end.
RECURSIVE Highlight(_, _)
Highlight(term, s) ==
    IF term = <<>>
    THEN <<"<b>", "</b>">> \o
         (IF s = <<>> THEN <<>> ELSE <<s[1]>> \o Highlight(term, Tail(s)))
    ELSE IF Len(s) < Len(term) THEN s
    ELSE IF Lower(SubSeq(s, 1, Len(term))) = Lower(term)
    THEN <<"<b>">> \o SubSeq(s, 1, Len(term)) \o <<"</b>">> \o
         Highlight(term, SubSeq(s, Len(term) + 1, Len(s)))
    ELSE <<s[1]>> \o Highlight(term, Tail(s))

\* if len(line_text) > max_length: line_text = line_text[:max_length] + "..."
Truncate(line_text) ==
    IF Len(line_text) > max_length
    THEN SubSeq(line_text, 1, max_length) \o <<".", ".", ".">>
    ELSE line_text

\* The child rows of a matched file.
ChildRows(term, line_matches) ==
    [k \in 1..Len(line_matches) |->
        [num |-> line_matches[k].num,
         text |-> Highlight(term, Truncate(line_matches[k].text))]]

\* Mutant: a row beyond the results takes the last result there is.
ResultAt_LastForRest(results, k) ==
    IF k <= Len(results) THEN results[k]
    ELSE IF results # <<>> THEN results[Len(results)]
    ELSE [match |-> FALSE, line_matches |-> <<>>]

\* match, line_matches = results[i] if i < len(results) else (False, [])
ResultAt(results, k) ==
    IF k <= Len(results) THEN results[k]
    ELSE [match |-> FALSE, line_matches |-> <<>>]

\* The rows after search_finished(results).
ShowResults(items, results, term) ==
    [k \in 1..Len(items) |->
        [items[k] EXCEPT
            !.hidden = ~ResultAt(results, k).match,
            !.children =
                IF ResultAt(results, k).match
                   /\ ResultAt(results, k).line_matches # <<>>
                THEN ChildRows(term, ResultAt(results, k).line_matches)
                ELSE <<>>]]

\* The user edits the search box.
EditSearchInput(text) ==
    /\ ~crashed
    /\ text \in InputTexts
    /\ text # search_input
    /\ search_input' = text
    /\ UNCHANGED <<fs, archive, file_items, search_button, btn_compress,
                   btn_clear_all, btn_clear_selected, progress_bar,
                   cancel_button, active_worker, sw, cw, dw, queue, crashed, runs>>

\* The user ticks or unticks the box of a visible row.
ClickCheckBox(k) ==
    /\ ~crashed
    /\ k \in 1..Len(file_items)
    /\ ~file_items[k].hidden
    /\ file_items' = [file_items EXCEPT ![k].checked = ~@]
    /\ UNCHANGED <<fs, archive, search_input, search_button, btn_compress,
                   btn_clear_all, btn_clear_selected, progress_bar,
                   cancel_button, active_worker, sw, cw, dw, queue, crashed, runs>>

\* toggle_select_all(state): every row, hidden or not, takes the state.
\* "state == Qt.CheckState.Checked" compares the signal's int with an enum
\* member; whether they compare equal depends on the binding, so both
\* answers are taken for the checked state.
toggle_select_all(state, eq) ==
    /\ ~crashed
    /\ state \in {"Checked", "Unchecked"}
    /\ eq \in BOOLEAN
    /\ file_items' = [k \in 1..Len(file_items) |->
                        [file_items[k] EXCEPT !.checked = (state = "Checked" /\ eq)]]
    /\ file_items' # file_items
    /\ UNCHANGED <<fs, archive, search_input, search_button, btn_compress,
                   btn_clear_all, btn_clear_selected, progress_bar,
                   cancel_button, active_worker, sw, cw, dw, queue, crashed, runs>>

\* check_folder_and_list_files, from the refresh button (never disabled).
check_folder_and_list_files ==
    /\ ~crashed
    /\ file_items' = ListFiles(fs)
    /\ file_items' # file_items
    /\ UNCHANGED <<fs, archive, search_input, search_button, btn_compress,
                   btn_clear_all, btn_clear_selected, progress_bar,
                   cancel_button, active_worker, sw, cw, dw, queue, crashed, runs>>

\* reset_search: clear the box, show every row, drop the child rows.
ResetRows(items) ==
    [k \in 1..Len(items) |-> [items[k] EXCEPT !.hidden = FALSE, !.children = <<>>]]

reset_search ==
    /\ ~crashed
    /\ search_input' = <<>>
    /\ file_items' = ResetRows(file_items)
    /\ <<search_input', file_items'>> # <<search_input, file_items>>
    /\ UNCHANGED <<fs, archive, search_button, btn_compress, btn_clear_all,
                   btn_clear_selected, progress_bar, cancel_button,
                   active_worker, sw, cw, dw, queue, crashed, runs>>

\* files_for_search = [(full_path, base_name) for ... in self.file_items]
FilesForSearch(items) ==
    [k \in 1..Len(items) |-> [path |-> items[k].path, name |-> BaseName(items[k].path)]]

\* start_search, from the search button or from Enter in the search box
\* (returnPressed stays connected while the button is disabled).  An empty
\* term resets.  Rebinding self.search_thread while the previous QThread has
\* not been quit destroys a running QThread, which aborts the process.
start_search ==
    /\ ~crashed
    /\ IF Strip(search_input) = <<>>
       THEN /\ search_input' = <<>>
            /\ file_items' = ResetRows(file_items)
            /\ <<search_input', file_items'>> # <<search_input, file_items>>
            /\ UNCHANGED <<search_button, progress_bar, cancel_button,
                           active_worker, sw, runs, crashed>>
       ELSE IF sw.pc # "idle"
       THEN /\ crashed' = TRUE
            /\ search_button' = FALSE
            /\ progress_bar' = TRUE
            /\ cancel_button' = TRUE
            /\ UNCHANGED <<search_input, file_items, active_worker, sw, runs>>
       ELSE /\ runs < MaxRuns
            /\ search_button' = FALSE
            /\ progress_bar' = TRUE
            /\ cancel_button' = TRUE
            /\ sw' = SearchWorker(FilesForSearch(file_items), Strip(search_input))
            /\ active_worker' = "search"
            /\ runs' = runs + 1
            /\ UNCHANGED <<search_input, file_items, crashed>>
    /\ UNCHANGED <<fs, archive, btn_compress, btn_clear_all, btn_clear_selected,
                   cw, dw, queue>>

\* search_finished(results)
search_finished ==
    /\ ~crashed
    /\ queue # <<>>
    /\ Head(queue).type = "finished"
    /\ Head(queue).src = "search"
    /\ queue' = Tail(queue)
    /\ file_items' = ShowResults(file_items, Head(queue).results, Strip(search_input))
    /\ progress_bar' = FALSE
    /\ cancel_button' = FALSE
    /\ search_button' = TRUE
    /\ sw' = IdleSearch
    /\ active_worker' = "none"
    /\ UNCHANGED <<fs, archive, search_input, btn_compress, btn_clear_all,
                   btn_clear_selected, cw, dw, crashed, runs>>

\* [(full_path, item.text(0)) for ... if checked and not item.isHidden()]
IsCheckedShown(item) == item.checked /\ ~item.hidden
IsShown(item) == ~item.hidden
IsChecked(item) == item.checked

ArchivePairs(items) ==
    [k \in 1..Len(items) |-> [path |-> items[k].path, arcname |-> DisplayText(items[k].path)]]

Paths(items) == [k \in 1..Len(items) |-> items[k].path]

\* The checked rows that are shown or, when there is none and the user
\* agrees, every row that is shown.
FilesToCompress(items) ==
    IF SelectSeq(items, IsCheckedShown) # <<>>
    THEN ArchivePairs(SelectSeq(items, IsCheckedShown))
    ELSE ArchivePairs(SelectSeq(items, IsShown))

\* compress_files, from the compress button, when there is something to
\* compress and the user names the archive.
compress_files ==
    /\ ~crashed
    /\ btn_compress
    /\ runs < MaxRuns
    /\ FilesToCompress(file_items) # <<>>
    /\ progress_bar' = TRUE
    /\ cancel_button' = TRUE
    /\ btn_compress' = FALSE
    /\ cw' = CompressionWorker(FilesToCompress(file_items))
    /\ active_worker' = "comp"
    /\ runs' = runs + 1
    /\ UNCHANGED <<fs, archive, file_items, search_input, search_button,
                   btn_clear_all, btn_clear_selected, sw, dw, queue, crashed>>

\* compression_finished(zip_path)
compression_finished ==
    /\ ~crashed
    /\ queue # <<>>
    /\ Head(queue).type = "finished"
    /\ Head(queue).src = "comp"
    /\ queue' = Tail(queue)
    /\ progress_bar' = FALSE
    /\ cancel_button' = FALSE
    /\ btn_compress' = TRUE
    /\ cw' = IdleComp
    /\ active_worker' = "none"
    /\ UNCHANGED <<fs, archive, file_items, search_input, search_button,
                   btn_clear_all, btn_clear_selected, sw, dw, crashed, runs>>

\* compression_error(err_msg)
compression_error ==
    /\ ~crashed
    /\ queue # <<>>
    /\ Head(queue).type = "error"
    /\ Head(queue).src = "comp"
    /\ queue' = Tail(queue)
    /\ progress_bar' = FALSE
    /\ cancel_button' = FALSE
    /\ btn_compress' = TRUE
    /\ cw' = IdleComp
    /\ active_worker' = "none"
    /\ UNCHANGED <<fs, archive, file_items, search_input, search_button,
                   btn_clear_all, btn_clear_selected, sw, dw, crashed, runs>>

\* start_deletion(files_to_delete)
start_deletion(files_to_delete) ==
    /\ runs < MaxRuns
    /\ runs' = runs + 1
    /\ progress_bar' = TRUE
    /\ cancel_button' = TRUE
    /\ btn_clear_all' = FALSE
    /\ btn_clear_selected' = FALSE
    /\ dw' = DeletionWorker(files_to_delete)
    /\ active_worker' = "del"
    /\ UNCHANGED <<fs, archive, file_items, search_input, search_button,
                   btn_compress, sw, cw, queue, crashed>>

\* [full_path for ... in self.file_items if not item.isHidden()]
FilesToDeleteAll(items) == Paths(SelectSeq(items, IsShown))

\* [full_path for ... in self.file_items if item.checkState(0) == Checked]
FilesToDeleteSelected(items) == Paths(SelectSeq(items, IsChecked))

\* start_delete_all, when there is a file and the user confirms.
start_delete_all ==
    /\ ~crashed
    /\ btn_clear_all
    /\ FilesToDeleteAll(file_items) # <<>>
    /\ start_deletion(FilesToDeleteAll(file_items))

\* start_delete_selected, when a row is checked and the user confirms.
start_delete_selected ==
    /\ ~crashed
    /\ btn_clear_selected
    /\ FilesToDeleteSelected(file_items) # <<>>
    /\ start_deletion(FilesToDeleteSelected(file_items))

\* deletion_finished: the list is read again from the folder.
deletion_finished ==
    /\ ~crashed
    /\ queue # <<>>
    /\ Head(queue).type = "finished"
    /\ Head(queue).src = "del"
    /\ queue' = Tail(queue)
    /\ progress_bar' = FALSE
    /\ cancel_button' = FALSE
    /\ btn_clear_all' = TRUE
    /\ btn_clear_selected' = TRUE
    /\ dw' = IdleDel
    /\ active_worker' = "none"
    /\ file_items' = ListFiles(fs)
    /\ UNCHANGED <<fs, archive, search_input, search_button, btn_compress,
                   sw, cw, crashed, runs>>

\* deletion_error(err_msg): the list is left as it is.
deletion_error ==
    /\ ~crashed
    /\ queue # <<>>
    /\ Head(queue).type = "error"
    /\ Head(queue).src = "del"
    /\ queue' = Tail(queue)
    /\ progress_bar' = FALSE
    /\ cancel_button' = FALSE
    /\ btn_clear_all' = TRUE
    /\ btn_clear_selected' = TRUE
    /\ dw' = IdleDel
    /\ active_worker' = "none"
    /\ UNCHANGED <<fs, archive, file_items, search_input, search_button,
                   btn_compress, sw, cw, crashed, runs>>

\* worker.cancel(): self._cancelled = True
Cancel(w, src) == [w EXCEPT !.cancelled = TRUE, !.trace = Append(@, CancelMark(src))]

\* cancel_operation, from the cancel button while it is shown.
cancel_operation ==
    /\ ~crashed
    /\ cancel_button
    /\ active_worker # "none"
    /\ sw' = IF active_worker = "search" THEN Cancel(sw, "search") ELSE sw
    /\ cw' = IF active_worker = "comp" THEN Cancel(cw, "comp") ELSE cw
    /\ dw' = IF active_worker = "del" THEN Cancel(dw, "del") ELSE dw
    /\ cancel_button' = FALSE
    /\ UNCHANGED <<fs, archive, file_items, search_input, search_button,
                   btn_compress, btn_clear_all, btn_clear_selected,
                   progress_bar, active_worker, queue, crashed, runs>>

\* ------------------------------------------------------------------ the program
\* MainWindow.__init__: the folder holds NumFiles files and has been listed;
\* no archive has been written.
Init ==
    /\ fs = Files
    /\ archive = NoFile
    /\ file_items = ListFiles(Files)
    /\ search_input = <<>>
    /\ search_button = TRUE
    /\ btn_compress = TRUE
    /\ btn_clear_all = TRUE
    /\ btn_clear_selected = TRUE
    /\ progress_bar = FALSE
    /\ cancel_button = FALSE
    /\ active_worker = "none"
    /\ sw = IdleSearch
    /\ cw = IdleComp
    /\ dw = IdleDel
    /\ queue = <<>>
    /\ runs = 0
    /\ crashed = FALSE

Next ==
    \/ \E text \in InputTexts : EditSearchInput(text)
    \/ \E k \in 1..Len(file_items) : ClickCheckBox(k)
    \/ \E state \in {"Checked", "Unchecked"}, eq \in BOOLEAN : toggle_select_all(state, eq)
    \/ check_folder_and_list_files
    \/ reset_search
    \/ start_search
    \/ search_finished
    \/ compress_files
    \/ compression_finished
    \/ compression_error
    \/ start_delete_all
    \/ start_delete_selected
    \/ deletion_finished
    \/ deletion_error
    \/ cancel_operation
    \/ SearchLoopHead
    \/ SearchLine
    \/ \E k \in 1..Len(cw.files) : CompReadCancelled(k)
    \/ \E k \in 1..Len(cw.files) : CompReadOk(k)
    \/ \E k \in 1..Len(cw.files) : CompReadFail(k)
    \/ \E k \in 1..Len(cw.files) : CompNextCompleted(k)
    \/ CompTake
    \/ CompDrain
    \/ CompOpenZip
    \/ CompOpenZipFail
    \/ CompWrite
    \/ CompWriteFail
    \/ DelLoopHead
    \/ DelRemoveOk
    \/ DelRemoveFail

Spec == Init /\ [][Next]_vars

\* ------------------------------------------------------------------ scheduling
\* The worker threads and the pool threads are scheduled: a step of run() or
\* of read_file that can be taken is taken.  The GUI thread's event loop
\* delivers every queued signal.  Nothing is assumed of the user.
WorkerFairness ==
    /\ WF_vars(SearchLoopHead)
    /\ WF_vars(SearchLine)
    /\ WF_vars(\E k \in 1..Len(cw.files) :
                  CompReadOk(k) \/ CompReadFail(k) \/ CompReadCancelled(k))
    /\ WF_vars(\E k \in 1..Len(cw.files) : CompNextCompleted(k))
    /\ WF_vars(CompTake)
    /\ WF_vars(CompDrain)
    /\ WF_vars(CompOpenZip \/ CompOpenZipFail)
    /\ WF_vars(CompWrite \/ CompWriteFail)
    /\ WF_vars(DelLoopHead)
    /\ WF_vars(DelRemoveOk \/ DelRemoveFail)

EventLoopFairness ==
    WF_vars(search_finished \/ compression_finished \/ compression_error
            \/ deletion_finished \/ deletion_error)

FairSpec == Spec /\ WorkerFairness /\ EventLoopFairness

\* ------------------------------------------------------------------ one task
\* A single task from its start to the handling of its terminal signal, for
\* every input the window can hand to a worker: the folder was listed when it
\* held the files of S, some of them have gone since, and the user started a
\* search, a compression or a deletion over the whole list; from then on the
\* only thing the user does is press the cancel button, at any moment.
TaskKinds == {"search", "comp", "del"}

\* What the search box may hold when a search is started.
SearchTerms == InputTexts \cup { <<"b">>, <<"B", "a">> }

InitTask ==
    \E S \in SUBSET (1..MaxInput), present \in SUBSET (1..MaxInput),
       kind \in TaskKinds, text \in SearchTerms :
        /\ present \subseteq S
        /\ kind # "search" => S # {} /\ text = <<>>
        /\ kind = "search" => Strip(text) # <<>>
        /\ fs = present
        /\ archive = NoFile
        /\ file_items = ListFiles(S)
        /\ search_input = text
        /\ search_button = (kind # "search")
        /\ btn_compress = (kind # "comp")
        /\ btn_clear_all = (kind # "del")
        /\ btn_clear_selected = (kind # "del")
        /\ progress_bar = TRUE
        /\ cancel_button = TRUE
        /\ active_worker = kind
        /\ sw = IF kind = "search"
                THEN SearchWorker(FilesForSearch(ListFiles(S)), Strip(text))
                ELSE IdleSearch
        /\ cw = IF kind = "comp"
                THEN CompressionWorker(FilesToCompress(ListFiles(S)))
                ELSE IdleComp
        /\ dw = IF kind = "del"
                THEN [DeletionWorker(FilesToDeleteAll(ListFiles(S))) EXCEPT !.fs0 = present]
                ELSE IdleDel
        /\ queue = <<>>
        /\ runs = 1
        /\ crashed = FALSE

NextTask ==
    \/ cancel_operation
    \/ search_finished
    \/ compression_finished
    \/ compression_error
    \/ deletion_finished
    \/ deletion_error
    \/ SearchLoopHead
    \/ SearchLine
    \/ \E k \in 1..Len(cw.files) : CompReadCancelled(k)
    \/ \E k \in 1..Len(cw.files) : CompReadOk(k)
    \/ \E k \in 1..Len(cw.files) : CompReadFail(k)
    \/ \E k \in 1..Len(cw.files) : CompNextCompleted(k)
    \/ CompTake
    \/ CompDrain
    \/ CompOpenZip
    \/ CompOpenZipFail
    \/ CompWrite
    \/ CompWriteFail
    \/ DelLoopHead
    \/ DelRemoveOk
    \/ DelRemoveFail

SpecTask == InitTask /\ [][NextTask]_vars

\* ------------------------------------------------------------------ reading a trace
IsSignal(e) == e.type # "cancel"
IsTerminal(e) == e.type \in {"finished", "error"}
IsProgress(e) == e.type = "progress"

\* The signals a run has emitted, in order.
Signals(w) == SelectSeq(w.trace, IsSignal)
Terminals(w) == SelectSeq(w.trace, IsTerminal)
Progresses(w) == SelectSeq(w.trace, IsProgress)

\* run() has returned.
Ended(w) == w.pc = "done"

\* The run's terminal signal, once it has ended.
Outcome(w) == Terminals(w)[1]

\* Position in the trace of the moment cancel() set the flag (0: never).
CancelAt(w) ==
    IF \E p \in 1..Len(w.trace) : w.trace[p].type = "cancel"
    THEN Min({p \in 1..Len(w.trace) : w.trace[p].type = "cancel"})
    ELSE 0

\* Progress signals emitted before / after position p of the trace.
ProgressBefore(w, p) ==
    Cardinality({q \in 1..Len(w.trace) : q < p /\ IsProgress(w.trace[q])})
ProgressAfter(w, p) ==
    Cardinality({q \in 1..Len(w.trace) : q > p /\ IsProgress(w.trace[q])})

\* cancel() was called before the run's terminal signal.
CancelledBeforeEnd(w) ==
    /\ CancelAt(w) # 0
    /\ \A q \in 1..Len(w.trace) : IsTerminal(w.trace[q]) => CancelAt(w) < q

\* cancel() was called while the run surely had work to do: before its
\* terminal signal and before the progress signal of its last file.
CancelledInTime(w) ==
    /\ CancelledBeforeEnd(w)
    /\ ProgressBefore(w, CancelAt(w)) < Len(w.files)

\* ------------------------------------------------------------------ C1
\* C1: at most one of the three workers exists at any time between its start
\* and the handling of its terminal signal.
TasksActive ==
    {k \in TaskKinds : (k = "search" /\ sw.pc # "idle")
                       \/ (k = "comp" /\ cw.pc # "idle")
                       \/ (k = "del" /\ dw.pc # "idle")}

C1_AtMostOneTask == Cardinality(TasksActive) <= 1

\* ------------------------------------------------------------------ C2
\* C2: a run emits no terminal signal while it is running, exactly one when
\* it has ended, and that one is the last signal of the run.
OneTerminal(w) ==
    /\ ~Ended(w) => Terminals(w) = <<>>
    /\ Ended(w) => /\ Len(Terminals(w)) = 1
                   /\ IsTerminal(Signals(w)[Len(Signals(w))])

C2_ExactlyOneTerminal == OneTerminal(sw) /\ OneTerminal(cw) /\ OneTerminal(dw)

\* A deletion that failed on a later file after a progress signal, cancelled or not.
C2_Witness ==
    /\ Ended(dw)
    /\ Outcome(dw).type = "error"
    /\ Len(Progresses(dw)) >= 1

\* ------------------------------------------------------------------ C3
\* C3: in every run the progress signals carry the number of input files as
\* total, a current that never decreases, and current <= total.
ProgressInOrder(w) ==
    \A q \in 1..Len(Progresses(w)) :
        /\ Progresses(w)[q].total = Len(w.files)
        /\ Progresses(w)[q].cur <= Progresses(w)[q].total
        /\ \A r \in 1..(q - 1) : Progresses(w)[r].cur <= Progresses(w)[q].cur

C3_ProgressMonotone ==
    ProgressInOrder(sw) /\ ProgressInOrder(cw) /\ ProgressInOrder(dw)

\* A compression whose reads were collected out of input order.
C3_Witness ==
    /\ Len(Progresses(cw)) >= 2
    /\ cw.results[1] = ReadResult(cw.files[2]).data

\* ------------------------------------------------------------------ C4
\* C4: a run cancelled while it still had work to do ends with the error
\* signal carrying the cancellation message, never with finished.
EndsCancelled(w) ==
    Ended(w) /\ CancelledInTime(w) =>
        Outcome(w).type = "error" /\ Outcome(w).msg = CancelledMsg

C4_CancelledOutcome == EndsCancelled(sw) /\ EndsCancelled(cw) /\ EndsCancelled(dw)

\* ------------------------------------------------------------------ C5
\* C5 as stated: no progress signal follows the moment cancel() set the flag.
NoProgressAfterCancel(w) == CancelAt(w) # 0 => ProgressAfter(w, CancelAt(w)) = 0

C5_NoProgressAfterCancel ==
    NoProgressAfterCancel(sw) /\ NoProgressAfterCancel(cw) /\ NoProgressAfterCancel(dw)

\* C5 as amended: at most one progress signal follows the moment cancel()
\* set the flag (that of the file in hand at that moment).
OneProgressAfterCancel(w) == CancelAt(w) # 0 => ProgressAfter(w, CancelAt(w)) <= 1

C5_AtMostOneProgressAfterCancel ==
    OneProgressAfterCancel(sw) /\ OneProgressAfterCancel(cw) /\ OneProgressAfterCancel(dw)

\* A search cancelled while it read a file: that file's progress signal
\* followed the cancellation and the run ended before the next file.
C5_Witness ==
    /\ Ended(sw)
    /\ CancelAt(sw) # 0
    /\ ProgressAfter(sw, CancelAt(sw)) = 1
    /\ Len(sw.results) < Len(sw.files)

\* ------------------------------------------------------------------ C6
\* C6: after a deletion that ended with finished, no path of its input is
\* on the filesystem.
C6_FinishedMeansDeleted ==
    Ended(dw) /\ Outcome(dw).type = "finished" => Range(dw.files) \cap fs = {}

\* ------------------------------------------------------------------ C7
\* C7: when removing the k-th file is the first removal to fail, the run has
\* emitted k-1 progress signals and then the error naming that file, the
\* files before it are removed, and the k-th and later files are as they
\* were when the run started.
FailedAt(w) == CHOOSE k \in 1..Len(w.files) : w.files[k] = Outcome(w).msg.path

C7_FirstFailureStops ==
    Ended(dw) /\ Outcome(dw).type = "error" =>
        /\ Outcome(dw).msg.kind = "delete"
        /\ Outcome(dw).msg.path \in Range(dw.files)
        /\ Len(Progresses(dw)) = FailedAt(dw) - 1
        /\ Len(Signals(dw)) = FailedAt(dw)
        /\ \A j \in 1..Len(dw.files) :
              IF j < FailedAt(dw)
              THEN dw.files[j] \in dw.fs0 /\ dw.files[j] \notin fs
              ELSE dw.files[j] \in fs <=> dw.files[j] \in dw.fs0

\* Three files, the second removal fails: the first is gone, the others stay.
C7_Witness ==
    /\ Ended(dw)
    /\ Len(dw.files) = 3
    /\ Outcome(dw).type = "error"
    /\ Outcome(dw).msg.path = dw.files[2]
    /\ dw.files[1] \notin fs
    /\ {dw.files[2], dw.files[3]} \subseteq fs

\* ------------------------------------------------------------------ C8
ReadFailed(w, k) == w.fut[k].st = "exc" /\ w.fut[k].exc.kind = "read"
SomeReadFailed(w) == \E k \in 1..Len(w.files) : ReadFailed(w, k)
NamesFailedRead(w, msg) ==
    \E k \in 1..Len(w.files) : ReadFailed(w, k) /\ msg = ReadErrorMsg(w.files[k].path)

\* The archive is opened only when every read has returned its data.
OpenedAfterReads(w) ==
    w.opened => \A k \in 1..Len(w.files) : w.fut[k].st = "ok"

\* C8 as stated: the archive is opened only after every read succeeded, and
\* a run in which a read failed ends with the error naming a failed path,
\* the archive never opened.
C8_ReadFailureNamesPath ==
    /\ OpenedAfterReads(cw)
    /\ Ended(cw) /\ SomeReadFailed(cw) =>
        /\ Outcome(cw).type = "error"
        /\ NamesFailedRead(cw, Outcome(cw).msg)
        /\ ~cw.opened

\* C8 as amended: ... ends with an error that names a failed path or, when
\* cancel() was called during the run, may carry the cancellation message.
C8_ReadFailureAborts ==
    /\ OpenedAfterReads(cw)
    /\ Ended(cw) /\ SomeReadFailed(cw) =>
        /\ Outcome(cw).type = "error"
        /\ \/ NamesFailedRead(cw, Outcome(cw).msg)
           \/ Outcome(cw).msg = CancelledMsg /\ cw.cancelled
        /\ ~cw.opened

\* Of three reads the one of the second file failed, after another had been
\* collected; the error names the second file and nothing was written.
C8_Witness ==
    /\ Ended(cw)
    /\ Len(cw.files) = 3
    /\ ReadFailed(cw, 2)
    /\ Len(Progresses(cw)) >= 1
    /\ Outcome(cw).msg = ReadErrorMsg(cw.files[2].path)
    /\ archive = NoFile

\* ------------------------------------------------------------------ C9
\* C9: a compression cancelled before it emitted finished ends with an
\* error, and has not created the archive.
C9_CancelLeavesNoArchive ==
    Ended(cw) /\ CancelledBeforeEnd(cw) =>
        Outcome(cw).type = "error" /\ ~cw.opened

\* ------------------------------------------------------------------ C10
\* C10: after finished the archive holds exactly one entry per input pair,
\* under the pair's entry name and with the bytes of the pair's source file.
EntryOf(pair) == <<pair.arcname, FileBytes(pair.path)>>

C10_ArchiveHoldsInputs ==
    Ended(cw) /\ Outcome(cw).type = "finished" =>
        /\ archive # NoFile
        /\ Len(archive) = Len(cw.files)
        /\ \A k \in 1..Len(cw.files) :
              Cardinality({j \in 1..Len(archive) : archive[j] = EntryOf(cw.files[k])}) = 1
        /\ \A j \in 1..Len(archive) :
              archive[j][1] = DisplayText(cw.files[CHOOSE k \in 1..Len(cw.files) :
                                            archive[j] = EntryOf(cw.files[k])].path)

\* Three files archived in an order that is not the input's.
C10_Witness ==
    /\ Ended(cw)
    /\ Outcome(cw).type = "finished"
    /\ Len(archive) = 3
    /\ archive[1] = EntryOf(cw.files[3])

\* ------------------------------------------------------------------ reading a search
\* T occurs in s, letter case ignored.
TermIn(T, s) == Contains(Lower(T), Lower(s))

\* The positions of the lines of file f in which T occurs.
LinesWith(T, f) == {j \in 1..Len(FileLines(f)) : TermIn(T, FileLines(f)[j])}

\* The result list a search run has emitted.
Emitted(w) == Outcome(w).results

\* ------------------------------------------------------------------ C11
\* C11: every file a search run reports as matched holds the term, letter
\* case ignored, in its display name or in at least one of its lines.
C11_MatchedHoldsTerm ==
    Ended(sw) =>
        \A k \in 1..Len(Emitted(sw)) :
            Emitted(sw)[k].match =>
                \/ TermIn(sw.term, DisplayText(sw.files[k].path))
                \/ LinesWith(sw.term, sw.files[k].path) # {}

\* A run that reported one file for its lines alone (its name is without the
\* term) and another for its name alone (none of its lines could be read).
C11_Witness ==
    /\ Ended(sw)
    /\ \E k \in 1..Len(Emitted(sw)) :
          /\ Emitted(sw)[k].match
          /\ ~TermIn(sw.term, DisplayText(sw.files[k].path))
          /\ Emitted(sw)[k].line_matches # <<>>
    /\ \E k \in 1..Len(Emitted(sw)) :
          /\ Emitted(sw)[k].match
          /\ TermIn(sw.term, DisplayText(sw.files[k].path))
          /\ Emitted(sw)[k].line_matches = <<>>

\* ------------------------------------------------------------------ C12
\* C12: a search run that was not cancelled reports as matched every file
\* whose display name (its path relative to the folder, as the list shows it)
\* holds the term, letter case ignored.
C12_DisplayNameMatches ==
    Ended(sw) /\ CancelAt(sw) = 0 =>
        \A k \in 1..Len(sw.files) :
            TermIn(sw.term, DisplayText(sw.files[k].path)) =>
                k <= Len(Emitted(sw)) /\ Emitted(sw)[k].match

\* ------------------------------------------------------------------ C13
\* The lines of entry k are lines of the k-th input file, which was there
\* to be read.
EntryOfFile(w, results, k) ==
    \A q \in 1..Len(results[k].line_matches) :
        LET lm == results[k].line_matches[q]
            f == w.files[k].path
        IN  /\ f \in fs
            /\ lm.num \in 1..Len(FileLines(f))
            /\ lm.text = RStrip(FileLines(f)[lm.num])

\* C13: a search run appends one entry and emits one progress signal per
\* file it has gone through, entry k for input file k, and never emits an
\* error; a run over n files that was not cancelled ends with finished
\* carrying n entries, after n progress signals numbered 1..n, whichever
\* files could not be opened or decoded.
C13_OneEntryPerFile ==
    /\ sw.pc # "idle" =>
          /\ Len(sw.results) = sw.i
          /\ Len(Progresses(sw)) = sw.i
          /\ \A k \in 1..Len(sw.results) : EntryOfFile(sw, sw.results, k)
          /\ \A q \in 1..Len(sw.trace) :
                /\ sw.trace[q].type # "error"
                /\ sw.trace[q].type = "progress" => sw.trace[q].results = <<>>
    /\ Ended(sw) /\ CancelAt(sw) = 0 =>
          /\ Outcome(sw).type = "finished"
          /\ Emitted(sw) = sw.results
          /\ Len(Emitted(sw)) = Len(sw.files)
          /\ Len(Progresses(sw)) = Len(sw.files)
          /\ \A q \in 1..Len(sw.files) : Progresses(sw)[q].cur = q

\* Three files, not cancelled: the first read to its end with matching lines,
\* the second failing at a later line, the third not there to be opened.
C13_Witness ==
    /\ Ended(sw)
    /\ CancelAt(sw) = 0
    /\ Len(sw.files) = 3
    /\ Emitted(sw)[1].line_matches # <<>>
    /\ BadLine(sw.files[2].path) > 1
    /\ sw.files[2].path \in fs
    /\ sw.files[3].path \notin fs
    /\ Len(Emitted(sw)) = 3

\* ------------------------------------------------------------------ C14
\* The GUI thread handles the terminal signal at the head of its queue.
HandlesTerminal == queue # <<>> /\ queue' = Tail(queue)

\* C14: from the start of a worker to the handling of its terminal signal
\* no step changes file_items (its rows, their check state, what is hidden),
\* and the results of a search are applied to the list the worker was
\* given.
C14_ListFrozenWhileActive ==
    [][/\ TasksActive # {} /\ ~HandlesTerminal => file_items' = file_items
       /\ HandlesTerminal /\ Head(queue).src = "search" =>
             FilesForSearch(file_items) = sw.files]_vars

\* ------------------------------------------------------------------ C15
\* The number of lines of f that a reader gets before the end of the file or
\* the first failure (none when f cannot be opened).
ReadableLines(f) ==
    IF f \notin fs THEN 0
    ELSE IF BadLine(f) = 0 THEN Len(FileLines(f))
    ELSE BadLine(f) - 1

\* The read of f reaches the end of the file.
ReadCompletes(f) == f \in fs /\ BadLine(f) = 0

\* What a scan of one file for T yields, as a function of T, the file's name
\* and the file's content alone.
ScanOf(T, file) ==
    LET Hit(lm) == TermIn(T, FileLines(file.path)[lm.num])
        hits == SelectSeq([j \in 1..ReadableLines(file.path) |->
                              [num |-> j, text |-> RStrip(FileLines(file.path)[j])]],
                          Hit)
    IN  [match |-> TermIn(T, file.name) \/ (ReadCompletes(file.path) /\ hits # <<>>),
         line_matches |-> hits]

\* C15: the result list of a search run that was not cancelled is a function
\* of the term, the input list and the content of the files: it is ScanOf of
\* each input file, in input order.  Two such runs with the same term over the
\* same unchanged files therefore emit the same list.
C15_ResultsDetermined ==
    Ended(sw) /\ CancelAt(sw) = 0 =>
        Emitted(sw) = [k \in 1..Len(sw.files) |-> ScanOf(sw.term, sw.files[k])]

\* An uncancelled run over three files with two matching lines, in file
\* order, for its first file.
C15_Witness ==
    /\ Ended(sw)
    /\ CancelAt(sw) = 0
    /\ Len(Emitted(sw)) = 3
    /\ Len(Emitted(sw)[1].line_matches) = 2
    /\ Emitted(sw)[1].line_matches[1].num < Emitted(sw)[1].line_matches[2].num

\* ------------------------------------------------------------------ C16
\* The window after the handling of a task's terminal signal.
BackToIdle(trigger) ==
    trigger /\ ~progress_bar /\ ~cancel_button /\ active_worker = "none"

\* C16: under fair scheduling every started task emits its terminal signal,
\* and its handling leaves the progress bar and the cancel button hidden, the
\* task's button enabled and active_worker None.
C16_EveryTaskEnds ==
    /\ (sw.pc = "loop") ~> Ended(sw)
    /\ (cw.pc = "collect") ~> Ended(cw)
    /\ (dw.pc = "loop") ~> Ended(dw)
    /\ (sw.pc # "idle") ~> (sw.pc = "idle" /\ BackToIdle(search_button))
    /\ (cw.pc # "idle") ~> (cw.pc = "idle" /\ BackToIdle(btn_compress))
    /\ (dw.pc # "idle") ~>
          (dw.pc = "idle" /\ BackToIdle(btn_clear_all /\ btn_clear_selected))

\* ------------------------------------------------------------------ C17
\* C17: a file whose read failed, at the open or at a later line, is
\* reported with no line match and with the match of its name alone; no
\* entry is reported with line matches and without the matched flag.
C17_FailedReadHasNoLines ==
    Ended(sw) =>
        \A k \in 1..Len(Emitted(sw)) :
            /\ CancelAt(sw) = 0 /\ ~ReadCompletes(sw.files[k].path) =>
                  /\ Emitted(sw)[k].line_matches = <<>>
                  /\ Emitted(sw)[k].match = TermIn(sw.term, sw.files[k].name)
            /\ Emitted(sw)[k].line_matches # <<>> => Emitted(sw)[k].match

\* ------------------------------------------------------------------ C18
IsPrefix(s, t) == Len(s) <= Len(t) /\ s = SubSeq(t, 1, Len(s))

\* The list a run emits is the list it collected: one entry per file gone
\* through, in input order; every entry but the last is the whole scan of its
\* file, the last (the file in hand at a cancellation) holds the first of
\* its file's matching lines.
EmitsPrefix(w) ==
    /\ Outcome(w).type = "finished"
    /\ Emitted(w) = w.results
    /\ Len(Emitted(w)) <= Len(w.files)
    /\ \A k \in 1..Len(Emitted(w)) :
          /\ IsPrefix(Emitted(w)[k].line_matches, ScanOf(w.term, w.files[k]).line_matches)
          /\ k < Len(Emitted(w)) => Emitted(w)[k] = ScanOf(w.term, w.files[k])

\* search_finished shows row k by entry k, and hides every row beyond the
\* entries, without child rows.
AppliesPrefix(results) ==
    /\ Len(file_items') = Len(file_items)
    /\ \A k \in 1..Len(file_items) :
          IF k <= Len(results)
          THEN file_items'[k].hidden = ~results[k].match
          ELSE file_items'[k].hidden /\ file_items'[k].children = <<>>

\* C18: a cancelled search still emits finished, with the entries of the
\* files 1..k it went through, in order; an entry once collected is not
\* changed; the window hides every row beyond the k-th.
C18_CancelledPrefix ==
    /\ [](Ended(sw) => EmitsPrefix(sw))
    /\ [][sw.pc # "idle" /\ sw'.pc # "idle" => IsPrefix(sw.results, sw'.results)]_vars
    /\ [][HandlesTerminal /\ Head(queue).src = "search" =>
             AppliesPrefix(Head(queue).results)]_vars

\* A search over three files, cancelled after its first file, has been
\* handled: the first row is shown and the third is hidden although its name
\* holds the term.
C18_Witness ==
    /\ sw.pc = "idle"
    /\ queue = <<>>
    /\ Strip(search_input) # <<>>
    /\ Len(file_items) = 3
    /\ ~file_items[1].hidden
    /\ file_items[1].children # <<>>
    /\ file_items[3].hidden
    /\ TermIn(Strip(search_input), BaseName(file_items[3].path))

\* ------------------------------------------------------------------ C19
\* The files a deletion run has removed.
Removed(w) == w.fs0 \ fs

\* The files whose removal was signalled before cancel() set the flag.
RemovedBeforeCancel(w) ==
    {w.files[j] : j \in 1..ProgressBefore(w, CancelAt(w))}

\* C19: a deletion removes one file per loop iteration and never puts one
\* back; an iteration that begins with the flag set removes nothing; so after
\* cancel() at most one more file is removed, the one in hand when the flag
\* was set, and the files removed before stay removed.
C19_DeleteCancelPerFile ==
    /\ [](CancelAt(dw) # 0 =>
            /\ RemovedBeforeCancel(dw) \subseteq Removed(dw)
            /\ Cardinality(Removed(dw) \ RemovedBeforeCancel(dw)) <= 1
            /\ Removed(dw) \ RemovedBeforeCancel(dw) \subseteq
                  {dw.files[j] : j \in {ProgressBefore(dw, CancelAt(dw)) + 1}
                                       \cap 1..Len(dw.files)})
    /\ [][dw.cancelled /\ dw.pc = "loop" => dw'.pc # "remove" /\ fs' = fs]_vars
    /\ [][fs' # fs => dw.pc = "remove" /\ fs' = fs \ {dw.files[dw.i + 1]}]_vars

\* Three files, cancel() during the second removal: the second file is
\* removed all the same and the third is left.
C19_Witness ==
    /\ Ended(dw)
    /\ Len(dw.files) = 3
    /\ CancelAt(dw) # 0
    /\ ProgressBefore(dw, CancelAt(dw)) = 1
    /\ Removed(dw) = {dw.files[1], dw.files[2]}
    /\ dw.files[3] \in fs

\* ------------------------------------------------------------------ C20
\* The child rows of a row for the entry (match, line_matches), each line cut
\* to max_length and marked for the term T.
RowsFor(T, entry) ==
    IF entry.match /\ entry.line_matches # <<>>
    THEN ChildRows(T, entry.line_matches)
    ELSE <<>>

\* C20: when the window shows the results of a search run, the child rows
\* hold the matched lines, cut to 35 characters, with the marker around the
\* occurrences of the term the run was started with, whatever the search box
\* holds by then.
C20_MarksStartedTerm ==
    [][HandlesTerminal /\ Head(queue).src = "search" =>
          \A k \in 1..Len(file_items) :
              file_items'[k].children =
                  RowsFor(sw.term, ResultAt(Head(queue).results, k))]_vars

\* ------------------------------------------------------------------ C21
\* The quotient q was computed with a divisor that is not zero and has the
\* value a / b.
IsRatio(q, a, b) == q[2] # 0 /\ b # 0 /\ q[1] * b = a * q[2]

\* C21: every progress signal of a deletion carries completed >= 1 and
\* total >= 1, percent = completed / total * 100 and
\* remaining = elapsed / completed * (total - completed), none computed with a
\* zero divisor; a deletion over no file emits no progress signal; the last
\* progress signal of a run that removed all its n files carries
\* completed = n, percent = 100 and remaining = 0.
C21_ProgressArithmetic ==
    /\ \A q \in 1..Len(Progresses(dw)) :
          LET e == Progresses(dw)[q]
          IN  /\ e.cur >= 1
              /\ e.total >= 1
              /\ IsRatio(e.timing.percent, e.cur * 100, e.total)
              /\ IsRatio(e.timing.remaining,
                         e.timing.elapsed * (e.total - e.cur), e.cur)
    /\ Len(dw.files) = 0 => Progresses(dw) = <<>>
    /\ dw.pc # "idle" /\ Len(Progresses(dw)) = Len(dw.files) /\ Len(dw.files) > 0 =>
          LET e == Progresses(dw)[Len(dw.files)]
          IN  /\ e.cur = Len(dw.files)
              /\ IsRatio(e.timing.percent, 100, 1)
              /\ IsRatio(e.timing.remaining, 0, 1)

\* Three files removed, the clock having advanced: the first signal projects
\* a remaining time, the last does not.
C21_Witness ==
    /\ Ended(dw)
    /\ Outcome(dw).type = "finished"
    /\ Len(dw.files) = 3
    /\ Len(Progresses(dw)) = 3
    /\ Progresses(dw)[1].timing.remaining[1] > 0
    /\ Progresses(dw)[3].timing.elapsed > 0
    /\ Progresses(dw)[3].timing.remaining[1] = 0

\* ------------------------------------------------------------------ C22
\* C22: active_worker is None exactly when no worker is between its start
\* and the handling of its terminal signal, and otherwise refers to such a
\* worker, which is the one cancel_operation cancels.
C22_ActiveWorkerIsRunning ==
    /\ active_worker = "none" <=> TasksActive = {}
    /\ active_worker # "none" => active_worker \in TasksActive

\* ------------------------------------------------------------------ C23
\* The paths of the rows the list shows.
ShownPaths(items) == {items[k].path : k \in {j \in 1..Len(items) : ~items[j].hidden}}

\* C23: every path handed to a DeletionWorker or to a CompressionWorker at
\* its start is the path of a row that the list shows at that moment.
C23_OnlyShownFiles ==
    [][/\ dw.pc = "idle" /\ dw'.pc # "idle" =>
             Range(dw'.files) \subseteq ShownPaths(file_items)
       /\ cw.pc = "idle" /\ cw'.pc # "idle" =>
             {cw'.files[k].path : k \in 1..Len(cw'.files)} \subseteq ShownPaths(file_items)]_vars

\* ------------------------------------------------------------------ C24
\* C24: once the window has handled the terminal signal of a deletion,
\* finished or error, its list holds no row for a file that the run removed.
C24_ListDropsRemoved ==
    [][HandlesTerminal /\ Head(queue).src = "del" =>
          \A k \in 1..Len(file_items') : file_items'[k].path \notin Removed(dw)]_vars

====
